---------------------------- MODULE Spec2Model ----------------------------
(***************************************************************************)
(* A model of the DRM panic QR-code encoder, drivers/gpu/drm/drm_panic_qr.rs *)
(*                                                                         *)
(* The state is that of one call of drm_panic_qr_generate: the caller's    *)
(* two buffers (data, tmp), the EncodedMsg and QrImage structs built on    *)
(* them, the SegmentIterator, and the position of the call in the code.    *)
(* Byte arrays are sequences; At(s, i) reads the 0-based index i.          *)
(*                                                                         *)
(* Specifications:                                                          *)
(*   Spec      the whole call, byte for byte, on small payloads            *)
(*   SpecSel   Version::from_segments over payload lengths up to 2954      *)
(*   SpecNum   the Numeric SegmentIterator over byte strings               *)
(*   SpecIter  the interleaved EncodedMsg iterator, versions 1..40         *)
(*   SpecWalk  the QrImage drawing coordinates, versions 1..40             *)
(***************************************************************************)
EXTENDS Integers, Sequences, FiniteSets, TLC

VARIABLES
  pc,         \* position of the call in the code
  url_null,   \* drm_panic_qr_generate: url.is_null()
  url,        \* url.as_bytes()
  data,       \* the caller's data buffer (payload in, bitmap out)
  data_size,  \* its capacity (data_slice.len())
  data_len,   \* length of the payload the caller announces
  tmp,        \* the caller's tmp buffer (EncodedMsg.data)
  tmp_size,   \* its capacity
  version,    \* Option<Version>: 0 is None
  em,         \* struct EncodedMsg, without its buffer
  it,         \* struct SegmentIterator, and the segment add_segment is in
  qr,         \* struct QrImage, without its buffer
  ret,        \* the u8 the entry point returns
  obs         \* what the run has done so far (reads, writes, emitted items)

vars == <<pc, url_null, url, data, data_size, data_len, tmp, tmp_size,
          version, em, it, qr, ret, obs>>

At(s, i) == s[i + 1]

Pow2(n) == 2 ^ n

Min(a, b) == IF a < b THEN a ELSE b

Max(a, b) == IF a > b THEN a ELSE b

\* the sequence s itself, as a tuple whose elements are evaluated once
Eager(s) == s \o <<>>

RECURSIVE SumTo(_, _)
\* f[1] + ... + f[n]
SumTo(f, n) == IF n = 0 THEN 0 ELSE f[n] + SumTo(f, n - 1)

-----------------------------------------------------------------------------
(* Static tables *)

P7 ==
  <<87, 229, 146, 149, 238, 102, 21>>

P10 ==
  <<251, 67, 46, 61, 118, 70, 64, 94, 32, 45>>

P15 ==
  <<8, 183, 61, 91, 202, 37, 51, 58, 58, 237, 140, 124, 5, 99, 105>>

P18 ==
  <<215, 234, 158, 94, 184, 97, 118, 170, 79, 187, 152, 148, 252, 179, 5, 98, 96, 153>>

P20 ==
  <<17, 60, 79, 50, 61, 163, 26, 187, 202, 180, 221, 225, 83, 239, 156, 164, 212, 212,
    188, 190>>

P22 ==
  <<210, 171, 247, 242, 93, 230, 14, 109, 221, 53, 200, 74, 8, 172, 98, 80, 219, 134,
    160, 105, 165, 231>>

P24 ==
  <<229, 121, 135, 48, 211, 117, 251, 126, 159, 180, 169, 152, 192, 226, 228, 218, 111,
    0, 117, 232, 87, 96, 227, 21>>

P26 ==
  <<173, 125, 158, 2, 103, 182, 118, 17, 145, 201, 111, 28, 165, 53, 161, 21, 245, 142,
    13, 102, 48, 227, 153, 145, 218, 70>>

P28 ==
  <<168, 223, 200, 104, 224, 234, 108, 180, 110, 190, 195, 147, 205, 27, 232, 201, 21,
    43, 245, 87, 42, 195, 212, 119, 242, 37, 9, 123>>

P30 ==
  <<41, 173, 145, 152, 216, 31, 179, 182, 50, 48, 110, 86, 239, 96, 222, 125, 42, 173,
    226, 193, 224, 130, 156, 37, 251, 216, 238, 40, 192, 180>>

VPARAM ==
  <<<<P7, 1, 0, 19>>,
    <<P10, 1, 0, 34>>,
    <<P15, 1, 0, 55>>,
    <<P20, 1, 0, 80>>,
    <<P26, 1, 0, 108>>,
    <<P18, 2, 0, 68>>,
    <<P20, 2, 0, 78>>,
    <<P24, 2, 0, 97>>,
    <<P30, 2, 0, 116>>,
    <<P18, 2, 2, 68>>,
    <<P20, 4, 0, 81>>,
    <<P24, 2, 2, 92>>,
    <<P26, 4, 0, 107>>,
    <<P30, 3, 1, 115>>,
    <<P22, 5, 1, 87>>,
    <<P24, 5, 1, 98>>,
    <<P28, 1, 5, 107>>,
    <<P30, 5, 1, 120>>,
    <<P28, 3, 4, 113>>,
    <<P28, 3, 5, 107>>,
    <<P28, 4, 4, 116>>,
    <<P28, 2, 7, 111>>,
    <<P30, 4, 5, 121>>,
    <<P30, 6, 4, 117>>,
    <<P26, 8, 4, 106>>,
    <<P28, 10, 2, 114>>,
    <<P30, 8, 4, 122>>,
    <<P30, 3, 10, 117>>,
    <<P30, 7, 7, 116>>,
    <<P30, 5, 10, 115>>,
    <<P30, 13, 3, 115>>,
    <<P30, 17, 0, 115>>,
    <<P30, 17, 1, 115>>,
    <<P30, 13, 6, 115>>,
    <<P30, 12, 7, 121>>,
    <<P30, 6, 14, 121>>,
    <<P30, 17, 4, 122>>,
    <<P30, 4, 18, 122>>,
    <<P30, 20, 4, 117>>,
    <<P30, 19, 6, 118>>>>

ALIGNMENT_PATTERNS ==
  <<<<>>,
    <<6, 18>>,
    <<6, 22>>,
    <<6, 26>>,
    <<6, 30>>,
    <<6, 34>>,
    <<6, 22, 38>>,
    <<6, 24, 42>>,
    <<6, 26, 46>>,
    <<6, 28, 50>>,
    <<6, 30, 54>>,
    <<6, 32, 58>>,
    <<6, 34, 62>>,
    <<6, 26, 46, 66>>,
    <<6, 26, 48, 70>>,
    <<6, 26, 50, 74>>,
    <<6, 30, 54, 78>>,
    <<6, 30, 56, 82>>,
    <<6, 30, 58, 86>>,
    <<6, 34, 62, 90>>,
    <<6, 28, 50, 72, 94>>,
    <<6, 26, 50, 74, 98>>,
    <<6, 30, 54, 78, 102>>,
    <<6, 28, 54, 80, 106>>,
    <<6, 32, 58, 84, 110>>,
    <<6, 30, 58, 86, 114>>,
    <<6, 34, 62, 90, 118>>,
    <<6, 26, 50, 74, 98, 122>>,
    <<6, 30, 54, 78, 102, 126>>,
    <<6, 26, 52, 78, 104, 130>>,
    <<6, 30, 56, 82, 108, 134>>,
    <<6, 34, 60, 86, 112, 138>>,
    <<6, 30, 58, 86, 114, 142>>,
    <<6, 34, 62, 90, 118, 146>>,
    <<6, 30, 54, 78, 102, 126, 150>>,
    <<6, 24, 50, 76, 102, 128, 154>>,
    <<6, 28, 54, 80, 106, 132, 158>>,
    <<6, 32, 58, 84, 110, 136, 162>>,
    <<6, 26, 54, 82, 110, 138, 166>>,
    <<6, 30, 58, 86, 114, 142, 170>>>>

VERSION_INFORMATION ==
  <<31892, 34236, 39577, 42195, 48118, 51042, 55367, 58893, 63784, 68472, 70749, 76311,
    79154, 84390, 87683, 92361, 96236, 102084, 102881, 110507, 110734, 117786, 119615,
    126325, 127568, 133589, 136944, 141498, 145311, 150283, 152622, 158308, 161089, 167017>>

FORMAT_INFOS_QR_L ==
  <<30660, 29427, 32170, 30877, 26159, 25368, 27713, 26998>>

EXP_TABLE ==
  <<1, 2, 4, 8, 16, 32, 64, 128, 29, 58, 116, 232, 205, 135, 19, 38, 76, 152, 45, 90,
    180, 117, 234, 201, 143, 3, 6, 12, 24, 48, 96, 192, 157, 39, 78, 156, 37, 74, 148,
    53, 106, 212, 181, 119, 238, 193, 159, 35, 70, 140, 5, 10, 20, 40, 80, 160, 93, 186,
    105, 210, 185, 111, 222, 161, 95, 190, 97, 194, 153, 47, 94, 188, 101, 202, 137, 15,
    30, 60, 120, 240, 253, 231, 211, 187, 107, 214, 177, 127, 254, 225, 223, 163, 91,
    182, 113, 226, 217, 175, 67, 134, 17, 34, 68, 136, 13, 26, 52, 104, 208, 189, 103,
    206, 129, 31, 62, 124, 248, 237, 199, 147, 59, 118, 236, 197, 151, 51, 102, 204, 133,
    23, 46, 92, 184, 109, 218, 169, 79, 158, 33, 66, 132, 21, 42, 84, 168, 77, 154, 41,
    82, 164, 85, 170, 73, 146, 57, 114, 228, 213, 183, 115, 230, 209, 191, 99, 198, 145,
    63, 126, 252, 229, 215, 179, 123, 246, 241, 255, 227, 219, 171, 75, 150, 49, 98, 196,
    149, 55, 110, 220, 165, 87, 174, 65, 130, 25, 50, 100, 200, 141, 7, 14, 28, 56, 112,
    224, 221, 167, 83, 166, 81, 162, 89, 178, 121, 242, 249, 239, 195, 155, 43, 86, 172,
    69, 138, 9, 18, 36, 72, 144, 61, 122, 244, 245, 247, 243, 251, 235, 203, 139, 11, 22,
    44, 88, 176, 125, 250, 233, 207, 131, 27, 54, 108, 216, 173, 71, 142, 1>>

LOG_TABLE ==
  <<175, 0, 1, 25, 2, 50, 26, 198, 3, 223, 51, 238, 27, 104, 199, 75, 4, 100, 224, 14,
    52, 141, 239, 129, 28, 193, 105, 248, 200, 8, 76, 113, 5, 138, 101, 47, 225, 36, 15,
    33, 53, 147, 142, 218, 240, 18, 130, 69, 29, 181, 194, 125, 106, 39, 249, 185, 201,
    154, 9, 120, 77, 228, 114, 166, 6, 191, 139, 98, 102, 221, 48, 253, 226, 152, 37,
    179, 16, 145, 34, 136, 54, 208, 148, 206, 143, 150, 219, 189, 241, 210, 19, 92, 131,
    56, 70, 64, 30, 66, 182, 163, 195, 72, 126, 110, 107, 58, 40, 84, 250, 133, 186, 61,
    202, 94, 155, 159, 10, 21, 121, 43, 78, 212, 229, 172, 115, 243, 167, 87, 7, 112,
    192, 247, 140, 128, 99, 13, 103, 74, 222, 237, 49, 197, 254, 24, 227, 165, 153, 119,
    38, 184, 180, 124, 17, 68, 146, 217, 35, 32, 137, 46, 55, 63, 209, 91, 149, 188, 207,
    205, 144, 135, 151, 178, 220, 252, 190, 97, 242, 86, 211, 171, 20, 42, 93, 158, 132,
    60, 57, 83, 71, 109, 65, 162, 31, 45, 67, 216, 183, 123, 164, 118, 196, 23, 73, 236,
    127, 12, 111, 246, 108, 161, 59, 82, 41, 157, 85, 170, 251, 96, 134, 177, 187, 204,
    62, 90, 203, 89, 95, 176, 156, 169, 160, 81, 11, 245, 22, 235, 122, 117, 44, 215, 79,
    174, 213, 233, 230, 231, 173, 232, 116, 214, 244, 234, 168, 80, 88, 175>>
-----------------------------------------------------------------------------
(* impl Version *)

MAX_VERSION == 40

Versions == 1..MAX_VERSION

width(v) == v * 4 + 17

g1_blocks(v) == VPARAM[v][2]

g2_blocks(v) == VPARAM[v][3]

g1_blk_size(v) == VPARAM[v][4]

poly(v) == VPARAM[v][1]

ec_size(v) == Len(poly(v))

max_data(v) == g1_blk_size(v) * g1_blocks(v) + (g1_blk_size(v) + 1) * g2_blocks(v)

alignment_pattern(v) == ALIGNMENT_PATTERNS[v]

version_info(v) == IF v >= 7 THEN VERSION_INFORMATION[v - 6] ELSE 0

-----------------------------------------------------------------------------
(* impl Segment: a segment is [kind, len, src], src naming the borrowed    *)
(* slice ("url" or "data"); its sizes depend on kind and len only.         *)

MODE_STOP == 0

MODE_NUMERIC == 1

MODE_BINARY == 4

PADDING == <<236, 17>>

NUM_CHARS_BITS == <<0, 4, 7, 10>>

POW10 == <<1, 10, 100, 1000>>

Segment(kind, src, len) == [kind |-> kind, src |-> src, len |-> len]

get_header(s) == IF s.kind = "Binary" THEN <<MODE_BINARY, 4>> ELSE <<MODE_NUMERIC, 4>>

length_bits_count(s, v) ==
  IF s.kind = "Binary"
    THEN (IF v <= 9 THEN 8 ELSE 16)
    ELSE (IF v <= 9 THEN 10 ELSE IF v <= 26 THEN 12 ELSE 14)

\* the count with a last group of k bits taken as (k + 1) / 2 digits
character_count_halves(s) ==
  IF s.kind = "Binary"
    THEN s.len
    ELSE LET data_bits == s.len * 8
             k == data_bits % 13
             last_chars == IF k = 1 THEN 1 ELSE (k + 1) \div 2
         IN  4 * (data_bits \div 13) + last_chars

character_count(s) ==
  IF s.kind = "Binary"
    THEN s.len
    ELSE LET data_bits == s.len * 8
             k == data_bits % 13
             last_chars == IF k = 1 THEN 1 ELSE (k + 1) \div 3
         IN  4 * (data_bits \div 13) + last_chars

\* (self.character_count() as u16, self.length_bits_count(version))
\* the length field with the width of versions 1 to 9 for every version
get_length_field_narrow(s, v) == <<character_count(s) % 65536, length_bits_count(s, 1)>>

get_length_field(s, v) == <<character_count(s) % 65536, length_bits_count(s, v)>>

\* the size with the bits of a last group of one or two digits left out
total_size_bits_whole_groups(s, v) ==
  LET data_size_ == IF s.kind = "Binary"
                      THEN s.len * 8
                      ELSE 10 * (character_count(s) \div 3)
  IN  4 + length_bits_count(s, v) + data_size_

total_size_bits(s, v) ==
  LET data_size_ == IF s.kind = "Binary"
                      THEN s.len * 8
                      ELSE LET digits == character_count(s)
                           IN  10 * (digits \div 3) + At(NUM_CHARS_BITS, digits % 3)
  IN  4 + length_bits_count(s, v) + data_size_

segments_bits(segments, v) ==
  SumTo([k \in 1..Len(segments) |-> total_size_bits(segments[k], v)], Len(segments))

RECURSIVE from_segments_scan_strict(_, _)
\* the scan with the capacity test made strict
from_segments_scan_strict(segments, v) ==
  IF v > MAX_VERSION THEN 0
  ELSE IF max_data(v) * 8 > segments_bits(segments, v) THEN v
  ELSE from_segments_scan_strict(segments, v + 1)

RECURSIVE from_segments_scan(_, _)
\* the loop of from_segments, from version v on; 0 is None
from_segments_scan(segments, v) ==
  IF v > MAX_VERSION THEN 0
  ELSE IF max_data(v) * 8 >= segments_bits(segments, v) THEN v
  ELSE from_segments_scan(segments, v + 1)

from_segments(segments) == from_segments_scan(segments, 1)

-----------------------------------------------------------------------------
(* The call's inputs *)

\* the bytes of a url of n characters (lower-case letters)
UrlBytes(n) == [i \in 1..n |-> 97 + (i % 26)]

\* a buffer of n bytes: byte i is (seed + i * step) mod 256
Pattern(n, seed, step) == [i \in 1..n |-> (seed + (i - 1) * step) % 256]

\* qr_encode_txt: [&seg_data]; qr_encode_url: [&seg_url, &seg_data]
entry_segments(isnull, u, dlen) ==
  IF isnull
    THEN <<Segment("Binary", "data", dlen)>>
    ELSE <<Segment("Binary", "url", Len(u)), Segment("Numeric", "data", dlen)>>

NoEm == [offset |-> 0, current |-> 0]

NoIt == [seg |-> 0, step |-> "none", offset |-> 0, carry |-> 0, carry_len |-> 0]

NoQr == [width |-> 0, stride |-> 0, x |-> 0, y |-> 0]

NoObs == [nread |-> 0, nwrite |-> 0, chunks |-> <<>>, last |-> -1, maxoff |-> -1,
          oob |-> FALSE, track |-> FALSE, visited |-> {}, placed |-> 0, rem |-> 0,
          dup |-> FALSE, wrap |-> FALSE, patt_out |-> FALSE, data_in |-> FALSE,
          dark_hit |-> FALSE, steps |-> 0, below |-> FALSE, from |-> 0, segs |-> <<>>]

-----------------------------------------------------------------------------
(* SpecSel: version selection and the value the entry point returns for it. *)
(* Only the lengths are state: from_segments reads nothing else.            *)

MaxSelLen == 2954

SelUrlLens == {0, 2, 12, 40}

InitSel ==
  /\ pc = "sel_start"
  /\ url_null \in BOOLEAN
  /\ url \in IF url_null THEN {<<>>} ELSE {UrlBytes(n) : n \in SelUrlLens}
  /\ data_len \in 0..MaxSelLen
  /\ data = <<>> /\ data_size = 0 /\ tmp = <<>> /\ tmp_size = 0
  /\ version = 0 /\ ret = 0
  /\ em = NoEm /\ it = NoIt /\ qr = NoQr /\ obs = NoObs

\* Version::from_segments(..).ok_or(())?, then Ok(qr_code.draw_all(em)) = width,
\* and unwrap_or(0) in drm_panic_qr_generate
SelectVersion ==
  /\ pc = "sel_start"
  /\ LET v == from_segments(entry_segments(url_null, url, data_len))
     IN  /\ version' = v
         /\ ret' = IF v = 0 THEN 0 ELSE width(v)
  /\ pc' = "sel_done"
  /\ UNCHANGED <<url_null, url, data, data_size, data_len, tmp, tmp_size, em, it, qr, obs>>

NextSel == SelectVersion

SpecSel == InitSel /\ [][NextSel]_vars

SelBits(v) == segments_bits(entry_segments(url_null, url, data_len), v)

\* C1: from_segments returns the smallest version whose capacity 8*max_data
\* holds the segments, None when there is none, and the entry point returns
\* 4*V+17 or 0: 17 bytes give 21, 18 give 25, 2953 give 177, 2954 give 0.
C1_VersionMinimal ==
  pc = "sel_done" =>
    /\ version \in 0..MAX_VERSION
    /\ version # 0 =>
         /\ 8 * max_data(version) >= SelBits(version)
         /\ \A w \in 1..(version - 1) : 8 * max_data(w) < SelBits(w)
    /\ version = 0 => \A w \in Versions : 8 * max_data(w) < SelBits(w)
    /\ ret = IF version = 0 THEN 0 ELSE 4 * version + 17
    /\ (url_null /\ data_len = 17) => ret = 21
    /\ (url_null /\ data_len = 18) => ret = 25
    /\ (url_null /\ data_len = 2953) => ret = 177
    /\ (url_null /\ data_len = 2954) => ret = 0

C1_Witness ==
  pc = "sel_done" /\ url_null /\ data_len = 2953 /\ version = 40 /\ ret = 177

-----------------------------------------------------------------------------
(* Fixed-width integers *)

U8(n) == n % 256

U16(n) == n % 65536

\* n << k and n >> k on a u16
Shl16(n, k) == U16(n * Pow2(k))

Shr(n, k) == n \div Pow2(k)

RECURSIVE BitOp(_, _, _, _)
\* bitwise op ("or", "xor") of two naturals below 2^bits
BitOp(op, a, b, bits) ==
  IF bits = 0 THEN 0
  ELSE LET x == a % 2
           y == b % 2
           z == IF op = "or" THEN (IF x + y > 0 THEN 1 ELSE 0) ELSE (x + y) % 2
       IN  z + 2 * BitOp(op, a \div 2, b \div 2, bits - 1)

Or8(a, b) == BitOp("or", a, b, 8)

XorTab == [a \in 0..255 |-> [b \in 0..255 |-> BitOp("xor", a, b, 8)]]

Xor8(a, b) == XorTab[a][b]

-----------------------------------------------------------------------------
(* get_next_13b and impl Iterator for SegmentIterator *)

\* Option<(u16, usize)>: <<>> is None
get_next_13b(bytes, offset) ==
  IF offset < Len(bytes) * 8
    THEN LET size == Min(13, Len(bytes) * 8 - offset)
             byte_off == offset \div 8
             bit_off == offset % 8
             b == bit_off + size
             \* (data[byte_off] << bit_off >> bit_off) as u16, the shifts on a u8
             first_byte == Shr(U8(At(bytes, byte_off) * Pow2(bit_off)), bit_off)
             number ==
               IF b <= 8 THEN Shr(first_byte, 8 - b)
               ELSE IF b <= 16
                 THEN U16(Shl16(first_byte, b - 8) + Shr(At(bytes, byte_off + 1), 16 - b))
               ELSE U16(Shl16(first_byte, b - 8)
                        + Shl16(At(bytes, byte_off + 1), b - 16)
                        + Shr(At(bytes, byte_off + 2), 24 - b))
         IN  <<number, size>>
    ELSE <<>>

\* SegmentIterator::next on segment s over its bytes: the item (<<>> is None)
\* and the iterator's fields afterwards
seg_next(s, bytes, i) ==
  IF s.kind = "Binary"
    THEN IF i.offset < Len(bytes)
           THEN [item |-> <<At(bytes, i.offset), 8>>,
                 it |-> [i EXCEPT !.offset = i.offset + 1]]
           ELSE [item |-> <<>>, it |-> i]
    ELSE IF i.carry_len = 3
           THEN [item |-> <<i.carry, At(NUM_CHARS_BITS, i.carry_len)>>,
                 it |-> [i EXCEPT !.carry_len = 0, !.carry = 0]]
         ELSE IF get_next_13b(bytes, i.offset) # <<>>
           THEN LET got == get_next_13b(bytes, i.offset)
                    bits == got[1]
                    size == got[2]
                    new_chars == IF size = 1 THEN 1 ELSE (size + 1) \div 3
                IN  IF i.carry_len + new_chars > 3
                      THEN LET cl == new_chars + i.carry_len - 3
                           IN  [item |-> <<U16(i.carry * At(POW10, new_chars - cl)
                                               + bits \div At(POW10, cl)),
                                           At(NUM_CHARS_BITS, 3)>>,
                                it |-> [i EXCEPT !.offset = i.offset + size,
                                                 !.carry_len = cl,
                                                 !.carry = bits % At(POW10, cl)]]
                      ELSE [item |-> <<U16(i.carry * At(POW10, new_chars) + bits),
                                       At(NUM_CHARS_BITS, i.carry_len + new_chars)>>,
                            it |-> [i EXCEPT !.offset = i.offset + size,
                                             !.carry_len = 0]]
         ELSE IF i.carry_len > 0
           THEN [item |-> <<i.carry, At(NUM_CHARS_BITS, i.carry_len)>>,
                 it |-> [i EXCEPT !.carry_len = 0]]
         ELSE [item |-> <<>>, it |-> i]

\* the bytes a segment borrows, as they are now
SegBytes(s) == IF s.src = "url" THEN url ELSE SubSeq(data, 1, s.len)

-----------------------------------------------------------------------------
(* SpecNum: the Numeric segment iterator run to its end over a byte string. *)

MaxNumLen == 7

NumBytes == {0, 15, 159}

InitNum ==
  /\ pc = "num_iter"
  /\ url_null = FALSE /\ url = <<>>
  /\ data_len \in 0..MaxNumLen
  /\ data \in [1..data_len -> NumBytes]
  /\ data_size = data_len
  /\ tmp = <<>> /\ tmp_size = 0 /\ version = 0 /\ ret = 0
  /\ em = NoEm /\ qr = NoQr /\ obs = NoObs
  /\ it = [NoIt EXCEPT !.seg = 1, !.step = "chunks"]

\* for bits in segment.iter(): one call of next(); the item goes to obs.chunks
NumNext ==
  /\ pc = "num_iter"
  /\ LET s == Segment("Numeric", "data", data_len)
         r == seg_next(s, SegBytes(s), it)
     IN  /\ it' = r.it
         /\ IF r.item = <<>>
              THEN pc' = "num_done" /\ obs' = obs
              ELSE /\ pc' = pc
                   /\ obs' = [obs EXCEPT !.chunks = Append(@, r.item),
                                         !.nread = @ + 1]
  /\ UNCHANGED <<url_null, url, data, data_size, data_len, tmp, tmp_size, version,
                 em, qr, ret>>

NextNum == NumNext

SpecNum == InitNum /\ [][NextNum]_vars

\* the decimal digits a chunk carries: 3, 2 or 1 for 10, 7 or 4 bits
ChunkDigits(c) ==
  LET k == IF c[2] = 10 THEN 3 ELSE IF c[2] = 7 THEN 2 ELSE 1
  IN  [i \in 1..k |-> (c[1] \div (10 ^ (k - i))) % 10]

RECURSIVE DigitsOf(_)
DigitsOf(cs) == IF cs = <<>> THEN <<>> ELSE ChunkDigits(Head(cs)) \o DigitsOf(Tail(cs))

\* digits d[from+1 .. from+cnt] read as one decimal number
DecimalAt(d, from, cnt) ==
  SumTo([i \in 1..cnt |-> IF from + i <= Len(d) THEN d[from + i] * (10 ^ (cnt - i)) ELSE 0],
        cnt)

\* bit j (MSB first) of the byte string
BitAt(bytes, j) == (At(bytes, j \div 8) \div Pow2(7 - (j % 8))) % 2

\* bit j of the digits turned back: 4 digits to 13 bits per full group, the
\* digits left to the s bits of the short last group
DecodedBit(d, nbits, j) ==
  LET g == j \div 13
      full == nbits \div 13
      sz == IF g < full THEN 13 ELSE nbits % 13
      cnt == IF g < full THEN 4 ELSE Len(d) - 4 * full
      value == DecimalAt(d, 4 * g, cnt)
  IN  (value \div Pow2(sz - 1 - (j % 13))) % 2

\* C3: the digits the Numeric iterator produced turn back into the bytes
C3_RoundTrip ==
  pc = "num_done" =>
    LET d == DigitsOf(obs.chunks)
    IN  \A j \in 0..(8 * data_len - 1) :
          DecodedBit(d, 8 * data_len, j) = BitAt(SubSeq(data, 1, data_len), j)


-----------------------------------------------------------------------------
(* impl EncodedMsg.  The buffer is passed and returned; an index outside it *)
(* is a Rust bounds-check panic, reported as panic |-> TRUE.               *)

InBuf(buf, i) == 0 <= i /\ i < Len(buf)

\* buf[i] = v, where i is inside the buffer
Store(buf, i, v) == [buf EXCEPT ![i + 1] = v]

\* EncodedMsg::init: data.fill(0)
em_init(buf) == [i \in 1..Len(buf) |-> 0]

\* push whose one-byte arm at a cursor inside a byte assigns instead of or-ing
push_assign(buf, offset, bits) ==
  LET number == bits[1]
      len_bits == bits[2]
      byte_off == offset \div 8
      bit_off == offset % 8
      b == bit_off + len_bits
      last == IF b <= 8 THEN byte_off ELSE IF b <= 16 THEN byte_off + 1 ELSE byte_off + 2
      old == At(buf, byte_off)
  IN  IF ~InBuf(buf, last)
        THEN [buf |-> buf, offset |-> offset + len_bits, panic |-> TRUE]
        ELSE [offset |-> offset + len_bits,
              panic |-> FALSE,
              buf |->
                IF b <= 8
                  THEN Store(buf, byte_off, U8(Shl16(number, 8 - b)))
                ELSE IF bit_off = 0
                  THEN Store(Store(buf, byte_off, U8(Shr(number, b - 8))),
                             byte_off + 1, U8(Shl16(number, 16 - b)))
                ELSE IF b <= 16
                  THEN Store(Store(buf, byte_off, Or8(old, U8(Shr(number, b - 8)))),
                             byte_off + 1, U8(Shl16(number, 16 - b)))
                ELSE Store(Store(Store(buf, byte_off, Or8(old, U8(Shr(number, b - 8)))),
                                 byte_off + 1, U8(Shr(number, b - 16))),
                           byte_off + 2, U8(Shl16(number, 24 - b)))]

\* EncodedMsg::push((number, len_bits)) at bit cursor offset
push(buf, offset, bits) ==
  LET number == bits[1]
      len_bits == bits[2]
      byte_off == offset \div 8
      bit_off == offset % 8
      b == bit_off + len_bits
      last == IF b <= 8 THEN byte_off ELSE IF b <= 16 THEN byte_off + 1 ELSE byte_off + 2
      old == At(buf, byte_off)
  IN  IF ~InBuf(buf, last)
        THEN [buf |-> buf, offset |-> offset + len_bits, panic |-> TRUE]
        ELSE [offset |-> offset + len_bits,
              panic |-> FALSE,
              buf |->
                IF bit_off = 0 /\ b <= 8
                  THEN Store(buf, byte_off, U8(Shl16(number, 8 - b)))
                ELSE IF bit_off = 0
                  THEN Store(Store(buf, byte_off, U8(Shr(number, b - 8))),
                             byte_off + 1, U8(Shl16(number, 16 - b)))
                ELSE IF b <= 8
                  THEN Store(buf, byte_off, Or8(old, U8(Shl16(number, 8 - b))))
                ELSE IF b <= 16
                  THEN Store(Store(buf, byte_off, Or8(old, U8(Shr(number, b - 8)))),
                             byte_off + 1, U8(Shl16(number, 16 - b)))
                ELSE Store(Store(Store(buf, byte_off, Or8(old, U8(Shr(number, b - 8)))),
                                 byte_off + 1, U8(Shr(number, b - 16))),
                           byte_off + 2, U8(Shl16(number, 24 - b)))]

\* EncodedMsg::finish: the terminator, then the padding bytes up to max_data
finish(buf, offset, v) ==
  LET t == push(buf, offset, <<MODE_STOP, 4>>)
      pad_offset == (t.offset + 7) \div 8
      padded == [i \in 1..Len(buf) |->
                   IF pad_offset <= i - 1 /\ i - 1 < max_data(v)
                     THEN At(PADDING, Xor8((i - 1) % 2, pad_offset % 2))
                     ELSE t.buf[i]]
  IN  IF t.panic THEN t
      ELSE [buf |-> padded, offset |-> t.offset,
            panic |-> pad_offset < max_data(v) /\ max_data(v) > Len(buf)]

MAX_EC_SIZE == 30

MAX_BLK_SIZE == 123

\* a turn of the loop of error_code_for_blocks with the exponent reduced modulo 256
ec_step_mod256(t, i, p) ==
  LET lead_coeff == At(t, i)
      log_lead_coeff == At(LOG_TABLE, lead_coeff)
  IN  IF lead_coeff = 0
        THEN t
        ELSE Eager([k \in 1..Len(t) |->
                IF i + 1 <= k - 1 /\ k - 1 < i + 1 + Len(p)
                  THEN Xor8(t[k], At(EXP_TABLE, (p[k - 1 - i] + log_lead_coeff) % 256))
                  ELSE t[k]])

\* one turn of the loop "for i in 0..size" of error_code_for_blocks over scratch t
ec_step(t, i, p) ==
  LET lead_coeff == At(t, i)
      log_lead_coeff == At(LOG_TABLE, lead_coeff)
  IN  IF lead_coeff = 0
        THEN t
        ELSE Eager([k \in 1..Len(t) |->
                \* tmp[i + 1..].iter_mut().zip(poly): scratch index i + 1 + j
                IF i + 1 <= k - 1 /\ k - 1 < i + 1 + Len(p)
                  THEN Xor8(t[k], At(EXP_TABLE, (p[k - 1 - i] + log_lead_coeff) % 255))
                  ELSE t[k]])

RECURSIVE ec_divide(_, _, _, _)
\* the turns i .. size - 1 of that loop, in order (evaluated by halves, the
\* scratch of the turns before being evaluated first)
ec_divide(t, i, size, p) ==
  IF i >= size \/ Len(t) = 0 THEN t
  ELSE IF i + 1 = size THEN ec_step(t, i, p)
  ELSE LET mid == (i + size) \div 2
       IN  ec_divide(ec_divide(t, i, mid, p), mid, size, p)

\* EncodedMsg::error_code_for_blocks(offset, size, ec_offset)
error_code_for_blocks(buf, offset, size, ec_offset, v) ==
  LET n == ec_size(v)
      scratch == Eager([k \in 1..(MAX_BLK_SIZE + MAX_EC_SIZE) |->
                          IF k <= size /\ InBuf(buf, offset + k - 1)
                            THEN At(buf, offset + k - 1)
                            ELSE 0])
      t == ec_divide(scratch, 0, size, poly(v))
  IN  IF offset + size > Len(buf) \/ ec_offset + n > Len(buf)
        THEN [buf |-> buf, panic |-> TRUE]
        ELSE [buf |-> Eager([k \in 1..Len(buf) |->
                               IF ec_offset <= k - 1 /\ k - 1 < ec_offset + n
                                 THEN At(t, size + (k - 1 - ec_offset))
                                 ELSE buf[k]]),
              panic |-> FALSE]

\* where block blk (0-based, group 1 first) starts, and its size
blk_offset(v, blk) ==
  IF blk < g1_blocks(v)
    THEN blk * g1_blk_size(v)
    ELSE g1_blocks(v) * g1_blk_size(v) + (blk - g1_blocks(v)) * (g1_blk_size(v) + 1)

blk_size(v, blk) == IF blk < g1_blocks(v) THEN g1_blk_size(v) ELSE g1_blk_size(v) + 1

RECURSIVE ec_blocks(_, _, _)
\* the two loops of compute_error_code, from block blk on
ec_blocks(r, blk, v) ==
  IF r.panic \/ blk >= g1_blocks(v) + g2_blocks(v) THEN r
  ELSE ec_blocks(error_code_for_blocks(r.buf, blk_offset(v, blk), blk_size(v, blk),
                                       max_data(v) + blk * ec_size(v), v),
                 blk + 1, v)

compute_error_code(buf, v) == ec_blocks([buf |-> buf, panic |-> FALSE], 0, v)

\* next() with the group-2 blocks of the data phase stepped by the group-1 size
em_next_g1_step(v, current) ==
  LET blocks == g1_blocks(v) + g2_blocks(v)
      g1_end == g1_blocks(v) * g1_blk_size(v)
      g2_blk_size == g1_blk_size(v) + 1
      g2_end == g1_end + g2_blocks(v) * g2_blk_size
      ec_end == g2_end + ec_size(v) * blocks
  IN  IF current >= ec_end THEN -1
      ELSE IF current < g1_blk_size(v) * blocks
        THEN LET blk == current % blocks
                 blk_off == current \div blocks
             IN  IF blk < g1_blocks(v)
                   THEN blk * g1_blk_size(v) + blk_off
                   ELSE g1_end + g1_blk_size(v) * (blk - g1_blocks(v)) + blk_off
      ELSE IF current < g2_end
        THEN LET blk2 == current - blocks * g1_blk_size(v)
             IN  g1_blk_size(v) * g1_blocks(v) + blk2 * g2_blk_size + g2_blk_size - 1
      ELSE LET ec_offset == current - g2_end
               blk == ec_offset % blocks
               blk_off == ec_offset \div blocks
           IN  g2_end + blk * ec_size(v) + blk_off

\* Iterator for EncodedMsg: the buffer index next() reads at stream position
\* current; -1 is None
em_next(v, current) ==
  LET blocks == g1_blocks(v) + g2_blocks(v)
      g1_end == g1_blocks(v) * g1_blk_size(v)
      g2_blk_size == g1_blk_size(v) + 1
      g2_end == g1_end + g2_blocks(v) * g2_blk_size
      ec_end == g2_end + ec_size(v) * blocks
  IN  IF current >= ec_end THEN -1
      ELSE IF current < g1_blk_size(v) * blocks
        THEN LET blk == current % blocks
                 blk_off == current \div blocks
             IN  IF blk < g1_blocks(v)
                   THEN blk * g1_blk_size(v) + blk_off
                   ELSE g1_end + g2_blk_size * (blk - g1_blocks(v)) + blk_off
      ELSE IF current < g2_end
        THEN LET blk2 == current - blocks * g1_blk_size(v)
             IN  g1_blk_size(v) * g1_blocks(v) + blk2 * g2_blk_size + g2_blk_size - 1
      ELSE LET ec_offset == current - g2_end
               blk == ec_offset % blocks
               blk_off == ec_offset \div blocks
           IN  g2_end + blk * ec_size(v) + blk_off

\* length of the interleaved stream: ec_end
stream_len(v) == max_data(v) + ec_size(v) * (g1_blocks(v) + g2_blocks(v))

-----------------------------------------------------------------------------
(* impl QrImage.  A drawing routine is the sequence of the (x, y) it hands  *)
(* to set (or xor), in the order of the code; the coordinates are computed *)
(* in the integers, so a u8 computation that would wrap shows as a value   *)
(* outside 0..255.                                                          *)

\* the stride rounded down
stride_of_floor(w) == w \div 8

stride_of(w) == (w + 7) \div 8

\* an image whose walker starts on the last row instead of below it
qr_init_last_row(v) == [width |-> width(v), stride |-> stride_of(width(v)),
                        x |-> width(v) - 2, y |-> width(v) - 1]

\* QrImage::init
qr_init(v) == [width |-> width(v), stride |-> stride_of(width(v)),
               x |-> width(v) - 2, y |-> width(v)]

\* the byte offset set and xor address for (x, y)
pixel_off(stride, x, y) == y * stride + x \div 8

pixel_bit(x) == Pow2(7 - (x % 8))

RECURSIVE ConcatRange(_, _, _)
\* f[lo] \o ... \o f[hi]
ConcatRange(f, lo, hi) ==
  IF lo > hi THEN <<>>
  ELSE IF lo = hi THEN f[lo]
  ELSE LET mid == (lo + hi) \div 2
       IN  ConcatRange(f, lo, mid) \o ConcatRange(f, mid + 1, hi)

\* f[1] \o ... \o f[n]
Concat(f, n) == ConcatRange(f, 1, n)

draw_square(x, y, size) ==
  [c \in 1..(4 * size) |->
     LET k == (c - 1) \div 4
         call == (c - 1) % 4
     IN  IF call = 0 THEN <<x + k, y>>
         ELSE IF call = 1 THEN <<x, y + k + 1>>
         ELSE IF call = 2 THEN <<x + size, y + k>>
         ELSE <<x + k + 1, y + size>>]

draw_finders(w) ==
  draw_square(1, 1, 4) \o draw_square(w - 6, 1, 4) \o draw_square(1, w - 6, 4)
  \o Concat([j \in 1..8 |-> LET k == j - 1
                            IN  <<<<k, 7>>, <<w - k - 1, 7>>, <<k, w - 8>>>>], 8)
  \o Concat([j \in 1..7 |-> LET k == j - 1
                            IN  <<<<7, k>>, <<w - 8, k>>, <<7, w - 1 - k>>>>], 7)

is_finder(w, x, y) ==
  LET end == w - 8
  IN  (x < 8 /\ y < 8) \/ (x < 8 /\ y >= end) \/ (x >= end /\ y < 8)

draw_alignments(v) ==
  LET positions == alignment_pattern(v)
      n == Len(positions)
  IN  Concat([c \in 1..(n * n) |->
                LET x == positions[((c - 1) \div n) + 1]
                    y == positions[((c - 1) % n) + 1]
                IN  IF ~is_finder(width(v), x, y)
                      THEN draw_square(x - 1, y - 1, 2)
                      ELSE <<>>],
             n * n)

\* the two loops return true exactly when some pair (ax, ay) that is not in a
\* finder has x within 2 of ax and y within 2 of ay; the test on x is made
\* in the outer quantifier, which leaves the result the same
is_alignment(v, x, y) ==
  LET positions == alignment_pattern(v)
  IN  \E i \in 1..Len(positions) :
        LET ax == positions[i]
        IN  /\ x >= ax - 2 /\ x <= ax + 2
            /\ \E j \in 1..Len(positions) :
                 LET ay == positions[j]
                 IN  /\ y >= ay - 2 /\ y <= ay + 2
                     /\ ~is_finder(width(v), ax, ay)

draw_timing_patterns(w) ==
  LET end == w - 8
      \* (9..end).step_by(2)
      n == IF end > 9 THEN (end - 9 + 1) \div 2 ELSE 0
  IN  Concat([j \in 1..n |-> LET x == 9 + 2 * (j - 1)
                             IN  <<<<x, 6>>, <<6, x>>>>], n)

is_timing(x, y) == x = 6 \/ y = 6

\* bit k of n
Bit(n, k) == (n \div Pow2(k)) % 2

\* draw_maskinfo with the second copy of the low bits one module to the right
draw_maskinfo_past_edge(w) ==
  LET info == FORMAT_INFOS_QR_L[1]
  IN  Concat([j \in 1..8 |->
                LET k == j - 1
                IN  IF Bit(info, 7 - k) = 0 THEN <<<<w - 7 + k, 8>>>> ELSE <<>>], 8)

draw_maskinfo(w) ==
  LET info == FORMAT_INFOS_QR_L[1]
  IN  Concat([j \in 1..7 |->
                LET k == j - 1
                    skip == IF k >= 6 THEN 1 ELSE 0
                IN  IF Bit(info, 14 - k) = 0
                      THEN <<<<k + skip, 8>>, <<8, w - 1 - k>>>>
                      ELSE <<>>], 7)
      \o Concat([j \in 1..8 |->
                   LET k == j - 1
                       skip == IF k >= 2 THEN 1 ELSE 0
                   IN  IF Bit(info, 7 - k) = 0
                         THEN <<<<8, 8 - skip - k>>, <<w - 8 + k, 8>>>>
                         ELSE <<>>], 8)

is_maskinfo(w, x, y) ==
  LET end == w - 8
  IN  (x <= 8 /\ y = 8) \/ (y <= 8 /\ x = 8) \/ (x = 8 /\ y >= end) \/ (x >= end /\ y = 8)

draw_version_info(v) ==
  LET vinfo == version_info(v)
      pos == width(v) - 11
  IN  IF vinfo # 0
        THEN Concat([c \in 1..18 |->
                       LET x == (c - 1) \div 6
                           y == (c - 1) % 6
                       IN  IF Bit(vinfo, x + y * 3) = 0
                             THEN <<<<x + pos, y>>, <<y, x + pos>>>>
                             ELSE <<>>], 18)
        ELSE <<>>

is_version_info(v, x, y) ==
  LET vinfo == version_info(v)
      pos == width(v) - 11
  IN  vinfo # 0 /\ ((x >= pos /\ x < pos + 3 /\ y < 6) \/ (y >= pos /\ y < pos + 3 /\ x < 6))

\* is_reserved without the version-information blocks
is_reserved_no_version_info(v, x, y) ==
  \/ is_alignment(v, x, y)
  \/ is_finder(width(v), x, y)
  \/ is_timing(x, y)
  \/ is_maskinfo(width(v), x, y)

is_reserved(v, x, y) ==
  \/ is_alignment(v, x, y)
  \/ is_finder(width(v), x, y)
  \/ is_timing(x, y)
  \/ is_maskinfo(width(v), x, y)
  \/ is_version_info(v, x, y)

\* next() that steps from column 7 into column 6
next_into_timing_column(w, x, y) ==
  LET x_adj == IF x <= 6 THEN x + 1 ELSE x
      column_type == (w - x_adj) % 4
  IN  IF column_type = 2 /\ y > 0
        THEN [x |-> U8(x + 1), y |-> y - 1, wrap |-> x_adj > w \/ x + 1 > 255]
      ELSE IF column_type = 0 /\ y < w - 1
        THEN [x |-> U8(x + 1), y |-> U8(y + 1), wrap |-> x_adj > w \/ x + 1 > 255]
      ELSE [x |-> U8(x - 1), y |-> y, wrap |-> x_adj > w \/ x < 1]

\* QrImage::next: the walker's step from (x, y); wrap tells that a u8
\* subtraction went below 0 (a panic with overflow checks, 256 + x otherwise)
next(w, x, y) ==
  LET x_adj == IF x <= 6 THEN x + 1 ELSE x
      column_type == (w - x_adj) % 4
      below == x_adj > w
  IN  IF column_type = 2 /\ y > 0
        THEN [x |-> U8(x + 1), y |-> y - 1, wrap |-> below \/ x + 1 > 255]
      ELSE IF column_type = 0 /\ y < w - 1
        THEN [x |-> U8(x + 1), y |-> U8(y + 1), wrap |-> below \/ x + 1 > 255]
      ELSE IF (column_type = 0 \/ column_type = 2) /\ x = 7
        THEN [x |-> x - 2, y |-> y, wrap |-> below]
      ELSE [x |-> U8(x - 1), y |-> y, wrap |-> below \/ x < 1]

\* apply_mask without the test of is_reserved
apply_mask_all(v) ==
  LET w == width(v)
  IN  SelectSeq([c \in 1..(w * w) |-> <<(c - 1) \div w, (c - 1) % w>>],
                LAMBDA p : Xor8(p[1], p[2]) % 2 = 0)

\* apply_mask: the cells it hands to xor, x outer and y inner
apply_mask(v) ==
  LET w == width(v)
  IN  SelectSeq([c \in 1..(w * w) |-> <<(c - 1) \div w, (c - 1) % w>>],
                LAMBDA p : Xor8(p[1], p[2]) % 2 = 0 /\ ~is_reserved(v, p[1], p[2]))

-----------------------------------------------------------------------------
(* Drawing into the data buffer.  A drawing state is                        *)
(* [buf, x, y, sets, panic, wrap]: the buffer, the walker, the number of   *)
(* set/xor calls made, whether an index left the buffer, whether a u8      *)
(* computation of the walker wrapped.                                       *)

\* QrImage::set(x, y) on a buffer that holds the offset
set(buf, stride, x, y) ==
  LET off == pixel_off(stride, x, y)
  IN  Store(buf, off, Or8(At(buf, off), pixel_bit(x)))

\* QrImage::xor(x, y) on a buffer that holds the offset
xor(buf, stride, x, y) ==
  LET off == pixel_off(stride, x, y)
  IN  Store(buf, off, Xor8(At(buf, off), pixel_bit(x)))

\* one call of set (op = "set") or xor; the slice index panics out of range
draw_cell(op, d, stride, cell) ==
  LET x == cell[1]
      y == cell[2]
  IN  IF d.panic THEN d
      ELSE IF ~InBuf(d.buf, pixel_off(stride, x, y))
        THEN [d EXCEPT !.panic = TRUE]
        ELSE [d EXCEPT !.buf = IF op = "set" THEN set(d.buf, stride, x, y)
                               ELSE xor(d.buf, stride, x, y),
                       !.sets = @ + 1]

RECURSIVE draw_cells_range(_, _, _, _, _, _)
\* the calls for cells[lo..hi], in order (evaluated by halves)
draw_cells_range(op, d, stride, cells, lo, hi) ==
  IF d.panic \/ lo > hi THEN d
  ELSE IF lo = hi THEN draw_cell(op, d, stride, cells[lo])
  ELSE LET mid == (lo + hi) \div 2
       IN  draw_cells_range(op, draw_cells_range(op, d, stride, cells, lo, mid),
                            stride, cells, mid + 1, hi)

\* set (op = "set") or xor each of cells[i..] in turn
draw_cells(op, d, stride, cells, i) == draw_cells_range(op, d, stride, cells, i, Len(cells))

Drawing(buf, q) == [buf |-> buf, x |-> q.x, y |-> q.y, sets |-> 0,
                    panic |-> FALSE, wrap |-> FALSE]

\* one call of next() on a drawing state
walk(v, d) ==
  LET p == next(width(v), d.x, d.y)
  IN  [d EXCEPT !.x = p.x, !.y = p.y, !.wrap = p.wrap, !.panic = p.wrap]

RECURSIVE skip_reserved(_, _)
\* while self.is_reserved(self.x, self.y) { self.next() }
skip_reserved(v, d) ==
  IF d.panic \/ ~is_reserved(v, d.x, d.y) THEN d ELSE skip_reserved(v, walk(v, d))

\* QrImage::draw_bit(light)
draw_bit(v, stride, d, light) ==
  LET e == skip_reserved(v, walk(v, d))
  IN  IF e.panic \/ ~light THEN e
      ELSE draw_cells("set", e, stride, <<<<e.x, e.y>>>>, 1)

RECURSIVE draw_byte(_, _, _, _, _)
\* QrImage::draw_byte(b): for x in (0..8).rev(), from bit k down
draw_byte(v, stride, d, b, k) ==
  IF d.panic \/ k < 0 THEN d
  ELSE draw_byte(v, stride, draw_bit(v, stride, d, Bit(b, k) = 0), b, k - 1)

RECURSIVE draw_remaining_loop(_, _, _)
\* the while loop of draw_remaining
draw_remaining_loop(v, stride, d) ==
  IF d.panic \/ ~(d.x # 0 \/ d.y # width(v) - 1) THEN d
  ELSE LET e == IF ~is_reserved(v, d.x, d.y)
                  THEN draw_cells("set", d, stride, <<<<d.x, d.y>>>>, 1)
                  ELSE d
       IN  IF e.panic THEN e ELSE draw_remaining_loop(v, stride, walk(v, e))

draw_remaining(v, stride, d) == draw_remaining_loop(v, stride, walk(v, d))

-----------------------------------------------------------------------------
(* Spec: one call of drm_panic_qr_generate, from the arguments to the       *)
(* returned width, a Rust panic, or the return of 0.                        *)

MaxDataLen == 18

UrlLens == {12}

DataSizes == {17, 62, 100}

TmpSizes == {10, 25, 44}

Init ==
  /\ pc = "start"
  /\ url_null \in BOOLEAN
  /\ url \in IF url_null THEN {<<>>} ELSE {UrlBytes(n) : n \in UrlLens}
  /\ data_size \in DataSizes
  /\ data_len \in 0..MaxDataLen
  /\ data = Pattern(data_size, 165, 37)
  /\ tmp_size \in TmpSizes
  /\ tmp = Pattern(tmp_size, 255, 0)
  /\ version = 0 /\ ret = 0
  /\ em = NoEm /\ it = NoIt /\ qr = NoQr /\ obs = NoObs

\* the order with the image cleared before the message is encoded
entry_order_clear_first ==
  <<"clear", "encode", "finish", "ecc", "finders", "alignments", "timing",
    "version_info", "draw_data", "draw_remaining", "maskinfo", "apply_mask">>

\* the statements of qr_encode_txt / qr_encode_url after the version is
\* chosen, in program order: em.encode (add_segment, finish,
\* compute_error_code), then QrImage::init and draw_all
entry_order ==
  <<"encode", "finish", "ecc", "clear", "finders", "alignments", "timing",
    "version_info", "draw_data", "draw_remaining", "maskinfo", "apply_mask">>

\* the statement after p; "done" after the last
After(p) ==
  LET i == CHOOSE k \in 1..Len(entry_order) : entry_order[k] = p
  IN  IF i = Len(entry_order) THEN "done" ELSE entry_order[i + 1]

segments == entry_segments(url_null, url, data_len)

\* go on to the statement after p, or panic; the entry point returns the
\* width after the last statement
Advance(p, panic) ==
  /\ pc' = IF panic THEN "panic" ELSE After(p)
  /\ ret' = IF ~panic /\ After(p) = "done" THEN width(version) ELSE ret

inputs == <<url_null, url, data_size, data_len, tmp_size>>

\* drm_panic_qr_generate, qr_encode_txt / qr_encode_url up to EncodedMsg::init
Entry ==
  /\ pc = "start"
  /\ LET v == from_segments(segments)
     IN  IF data_len > data_size
           \* &data[0..data_len]
           THEN pc' = "panic" /\ UNCHANGED <<version, tmp, em, it, ret>>
         ELSE IF v = 0
           \* .ok_or(())? and unwrap_or(0)
           THEN pc' = "done" /\ ret' = 0 /\ UNCHANGED <<version, tmp, em, it>>
         ELSE /\ version' = v
              /\ tmp' = em_init(tmp)
              /\ em' = [offset |-> 0, current |-> 0]
              /\ it' = [NoIt EXCEPT !.seg = 1, !.step = "header"]
              /\ pc' = entry_order[1]
              /\ ret' = ret
  /\ UNCHANGED <<inputs, data, qr, obs>>

\* add_segment: self.push(segment.get_header())
AddSegmentHeader ==
  /\ pc = "encode" /\ it.step = "header"
  /\ LET r == push(tmp, em.offset, get_header(segments[it.seg]))
     IN  /\ tmp' = r.buf
         /\ em' = [em EXCEPT !.offset = r.offset]
         /\ pc' = IF r.panic THEN "panic" ELSE pc
  /\ it' = [it EXCEPT !.step = "length"]
  /\ UNCHANGED <<inputs, data, version, qr, ret, obs>>

\* add_segment: self.push(segment.get_length_field(self.version)); segment.iter()
AddSegmentLength ==
  /\ pc = "encode" /\ it.step = "length"
  /\ LET r == push(tmp, em.offset, get_length_field(segments[it.seg], version))
     IN  /\ tmp' = r.buf
         /\ em' = [em EXCEPT !.offset = r.offset]
         /\ pc' = IF r.panic THEN "panic" ELSE pc
  /\ it' = [it EXCEPT !.step = "chunks", !.offset = 0, !.carry = 0, !.carry_len = 0]
  /\ UNCHANGED <<inputs, data, version, qr, ret, obs>>

\* add_segment: one turn of "for bits in segment.iter() { self.push(bits) }";
\* on None the next segment, or the end of encode's loop
AddSegmentChunk ==
  /\ pc = "encode" /\ it.step = "chunks"
  /\ LET s == segments[it.seg]
         n == seg_next(s, SegBytes(s), it)
         r == push(tmp, em.offset, n.item)
     IN  IF n.item # <<>>
           THEN /\ tmp' = r.buf
                /\ em' = [em EXCEPT !.offset = r.offset]
                /\ it' = n.it
                /\ obs' = [obs EXCEPT !.nread = IF s.src = "data" THEN @ + 1 ELSE @]
                /\ pc' = IF r.panic THEN "panic" ELSE pc
                /\ ret' = ret
           ELSE /\ UNCHANGED <<tmp, em, obs>>
                /\ IF it.seg < Len(segments)
                     THEN /\ it' = [n.it EXCEPT !.seg = it.seg + 1, !.step = "header"]
                          /\ pc' = pc /\ ret' = ret
                     ELSE /\ it' = [n.it EXCEPT !.step = "none"]
                          /\ Advance("encode", FALSE)
  /\ UNCHANGED <<inputs, data, version, qr>>

\* EncodedMsg::finish
Finish ==
  /\ pc = "finish"
  /\ LET r == finish(tmp, em.offset, version)
     IN  /\ tmp' = r.buf
         /\ em' = [em EXCEPT !.offset = r.offset]
         /\ Advance("finish", r.panic)
  /\ UNCHANGED <<inputs, data, version, it, qr, obs>>

\* EncodedMsg::compute_error_code
ComputeErrorCode ==
  /\ pc = "ecc"
  /\ LET r == compute_error_code(tmp, version)
     IN  /\ tmp' = r.buf
         /\ Advance("ecc", r.panic)
  /\ UNCHANGED <<inputs, data, version, em, it, qr, obs>>

\* a drawing step p that leaves drawing state d
Drawn(p, d) ==
  /\ data' = d.buf
  /\ qr' = [qr EXCEPT !.x = d.x, !.y = d.y]
  /\ obs' = [obs EXCEPT !.nwrite = @ + d.sets, !.wrap = @ \/ d.wrap]
  /\ Advance(p, d.panic)

\* QrImage::init, and draw_all: self.clear()
Clear ==
  /\ pc = "clear"
  /\ qr' = qr_init(version)
  /\ data' = [i \in 1..Len(data) |-> 0]
  /\ obs' = [obs EXCEPT !.nwrite = @ + 1]
  /\ Advance("clear", FALSE)
  /\ UNCHANGED <<inputs, tmp, version, em, it>>

DrawFinders ==
  /\ pc = "finders"
  /\ Drawn("finders", draw_cells("set", Drawing(data, qr), qr.stride, draw_finders(qr.width), 1))
  /\ UNCHANGED <<inputs, tmp, version, em, it>>

DrawAlignments ==
  /\ pc = "alignments"
  /\ Drawn("alignments",
           draw_cells("set", Drawing(data, qr), qr.stride, draw_alignments(version), 1))
  /\ UNCHANGED <<inputs, tmp, version, em, it>>

DrawTimingPatterns ==
  /\ pc = "timing"
  /\ Drawn("timing",
           draw_cells("set", Drawing(data, qr), qr.stride, draw_timing_patterns(qr.width), 1))
  /\ UNCHANGED <<inputs, tmp, version, em, it>>

DrawVersionInfo ==
  /\ pc = "version_info"
  /\ Drawn("version_info",
           draw_cells("set", Drawing(data, qr), qr.stride, draw_version_info(version), 1))
  /\ UNCHANGED <<inputs, tmp, version, em, it>>

\* draw_data: one turn of "for byte in data { self.draw_byte(byte) }", the
\* byte taken from the EncodedMsg iterator; on None the loop ends
DrawData ==
  /\ pc = "draw_data"
  /\ LET off == em_next(version, em.current)
     IN  IF off = -1
           THEN /\ Advance("draw_data", FALSE)
                /\ UNCHANGED <<data, qr, obs, em>>
           ELSE /\ em' = [em EXCEPT !.current = @ + 1]
                /\ LET d == draw_byte(version, qr.stride, Drawing(data, qr), At(tmp, off), 7)
                   IN  /\ data' = d.buf
                       /\ qr' = [qr EXCEPT !.x = d.x, !.y = d.y]
                       /\ obs' = [obs EXCEPT !.nwrite = @ + d.sets, !.wrap = @ \/ d.wrap]
                       /\ pc' = IF d.panic THEN "panic" ELSE pc
                       /\ ret' = ret
  /\ UNCHANGED <<inputs, tmp, version, it>>

DrawRemaining ==
  /\ pc = "draw_remaining"
  /\ Drawn("draw_remaining", draw_remaining(version, qr.stride, Drawing(data, qr)))
  /\ UNCHANGED <<inputs, tmp, version, em, it>>

DrawMaskinfo ==
  /\ pc = "maskinfo"
  /\ Drawn("maskinfo",
           draw_cells("set", Drawing(data, qr), qr.stride, draw_maskinfo(qr.width), 1))
  /\ UNCHANGED <<inputs, tmp, version, em, it>>

\* apply_mask, and draw_all's return of self.width
ApplyMask ==
  /\ pc = "apply_mask"
  /\ Drawn("apply_mask",
           draw_cells("xor", Drawing(data, qr), qr.stride, apply_mask(version), 1))
  /\ UNCHANGED <<inputs, tmp, version, em, it>>

Next ==
  \/ Entry
  \/ AddSegmentHeader
  \/ AddSegmentLength
  \/ AddSegmentChunk
  \/ Finish
  \/ ComputeErrorCode
  \/ Clear
  \/ DrawFinders
  \/ DrawAlignments
  \/ DrawTimingPatterns
  \/ DrawVersionInfo
  \/ DrawData
  \/ DrawRemaining
  \/ DrawMaskinfo
  \/ ApplyMask

Spec == Init /\ [][Next]_vars

-----------------------------------------------------------------------------
(* Claims about the whole call *)

\* the version the call selects, 0 when the payload fits none
Selected == from_segments(segments)

\* a buffer of the call is smaller than the call needs
BufferTooSmall ==
  \/ data_len > data_size
  \/ /\ Selected # 0
     /\ \/ tmp_size < max_data(Selected)
                        + ec_size(Selected) * (g1_blocks(Selected) + g2_blocks(Selected))
        \/ data_size < ((width(Selected) + 7) \div 8) * width(Selected)

\* C2: with a buffer smaller than required the entry point returns 0 and
\* never reaches a panic
C2_SmallBufferReturnsZero ==
  BufferTooSmall => (pc # "panic" /\ (pc = "done" => ret = 0))

\* C4: once the image drawer has written into the data buffer no payload
\* byte is read any more and tmp, complete with terminator, padding and ECC,
\* no longer changes: every read of the payload comes before the first write
C4_ReadsBeforeWrites ==
  /\ [](obs.nwrite > 0 => (it.step = "none" /\ em.offset >= segments_bits(segments, version) + 4))
  /\ [][(obs.nwrite > 0 \/ obs'.nwrite > 0) => (obs'.nread = obs.nread /\ tmp' = tmp)]_vars

C4_Witness ==
  pc = "done" /\ ~url_null /\ data_len = 3 /\ obs.nread > 0 /\ obs.nwrite > 0 /\ ret = 21

\* C5 as stated: the bit cursor never exceeds the capacity 8*max_data
C5_CursorWithinCapacity ==
  version # 0 => em.offset <= 8 * max_data(version)

\* C5, amended: the cursor stays within the capacity while the segments are
\* added, and finish's 4-bit terminator takes it at most 4 bits further
\* (never beyond the capacity for a single Binary segment)
C5_CursorWithinCapacityPlusTerminator ==
  version # 0 =>
    /\ pc = "encode" => em.offset <= 8 * max_data(version)
    /\ pc = "finish" => em.offset = segments_bits(segments, version)
    /\ em.offset <= 8 * max_data(version) + 4
    /\ url_null => em.offset <= 8 * max_data(version)

C5_Witness ==
  pc = "ecc" /\ ~url_null /\ data_len = 3 /\ em.offset = 8 * max_data(version) + 1

-----------------------------------------------------------------------------
(* SpecIter: the interleaved iterator of EncodedMsg run to None, for every  *)
(* version; obs.last is the buffer index the last call read.                *)

InitIter ==
  /\ pc = "iter"
  /\ version \in Versions
  /\ url_null = TRUE /\ url = <<>>
  /\ data = <<>> /\ data_size = 0 /\ data_len = 0
  /\ tmp = <<>> /\ tmp_size = stream_len(version)
  /\ ret = 0
  /\ em = [offset |-> 0, current |-> 0]
  /\ it = NoIt /\ qr = NoQr /\ obs = NoObs

\* one call of EncodedMsg::next
IterNext ==
  /\ pc = "iter"
  /\ LET off == em_next(version, em.current)
     IN  IF off = -1
           THEN pc' = "iter_done" /\ UNCHANGED <<em, obs>>
           ELSE /\ pc' = pc
                /\ em' = [em EXCEPT !.current = @ + 1]
                /\ obs' = [obs EXCEPT !.last = off]
  /\ UNCHANGED <<inputs, data, tmp, version, it, qr, ret>>

NextIter == IterNext

SpecIter == InitIter /\ [][NextIter]_vars

\* index of byte c of data block b (group-1 blocks first, then group-2)
DataByte(v, b, c) ==
  IF b < g1_blocks(v)
    THEN b * g1_blk_size(v) + c
    ELSE g1_blocks(v) * g1_blk_size(v) + (b - g1_blocks(v)) * (g1_blk_size(v) + 1) + c

\* index of byte c of the ECC of block b
EccByte(v, b, c) == max_data(v) + b * ec_size(v) + c

\* the order of the claim, as the list of indices it names: the data bytes
\* column by column, the last bytes of the group-2 blocks, the ECC bytes
\* column by column
InterleavedOrder(v) ==
  LET blocks == g1_blocks(v) + g2_blocks(v)
  IN  Concat([j \in 1..g1_blk_size(v) |-> [i \in 1..blocks |-> DataByte(v, i - 1, j - 1)]],
             g1_blk_size(v))
      \o [i \in 1..g2_blocks(v) |-> DataByte(v, g1_blocks(v) + i - 1, g1_blk_size(v))]
      \o Concat([j \in 1..ec_size(v) |-> [i \in 1..blocks |-> EccByte(v, i - 1, j - 1)]],
                ec_size(v))

InterleavedOrderOf == [v \in Versions |-> InterleavedOrder(v)]

\* C6: the iterator emits max_data + ec_size * blocks bytes and then None,
\* each call reads the index the interleaved order names at its position, and
\* every index below that length is read exactly once
C6_InterleavedOrder ==
  /\ em.current <= stream_len(version)
  /\ (pc = "iter" /\ em.current > 0) => obs.last = InterleavedOrderOf[version][em.current]
  /\ pc = "iter_done" =>
       /\ em.current = max_data(version)
                        + ec_size(version) * (g1_blocks(version) + g2_blocks(version))
       /\ {em_next(version, k) : k \in 0..(em.current - 1)} = 0..(em.current - 1)

C6_Witness ==
  pc = "iter_done" /\ version = 40 /\ em.current = 3706 /\ obs.last = 3705

-----------------------------------------------------------------------------
(* SpecWalk: draw_all on the coordinates alone, for every version.  The     *)
(* buffer is left out; obs records what set and xor were handed: the        *)
(* largest byte offset (maxoff), a coordinate outside the grid (oob), the   *)
(* modules draw_bit and draw_remaining stopped on (placed, rem, and, for    *)
(* the versions up to MaxVisitVersion, the set visited of their ids).       *)

MaxVisitVersion == 7

\* the bytes of the stream drawn: byte i of the stream of seed s; the
\* versions above MaxVisitVersion are walked with the first seed only
WalkSeeds == {0, 165}

WalkByte(s, i) == (s + 37 * i) % 256

RECURSIVE MaxOff(_, _, _, _)
\* the largest byte offset of cells[lo..hi], -1 if there is none
MaxOff(stride, cells, lo, hi) ==
  IF lo > hi THEN -1
  ELSE IF lo = hi THEN pixel_off(stride, cells[lo][1], cells[lo][2])
  ELSE LET mid == (lo + hi) \div 2
       IN  Max(MaxOff(stride, cells, lo, mid), MaxOff(stride, cells, mid + 1, hi))

InGrid(w, x, y) == 0 <= x /\ x < w /\ 0 <= y /\ y < w

\* obs after set / xor were called with each of cells, by a function-pattern
\* routine (by = "pattern") or by draw_bit, draw_remaining, apply_mask
\* (by = "data"): patt_out tells that a pattern routine wrote a module that
\* is not reserved, data_in that one of the others wrote a reserved module,
\* dark_hit that the module (8, W - 8) was written
Written(o, q, v, by, cells) ==
  [o EXCEPT !.nwrite = IF Len(cells) > 0 THEN 1 ELSE @,
            !.maxoff = Max(@, MaxOff(q.stride, cells, 1, Len(cells))),
            !.oob = @ \/ \E i \in 1..Len(cells) : ~InGrid(q.width, cells[i][1], cells[i][2]),
            !.patt_out = @ \/ (by = "pattern" /\ \E i \in 1..Len(cells) :
                                  ~is_reserved(v, cells[i][1], cells[i][2])),
            !.data_in = @ \/ (by = "data" /\ \E i \in 1..Len(cells) :
                                 is_reserved(v, cells[i][1], cells[i][2])),
            !.dark_hit = @ \/ \E i \in 1..Len(cells) :
                                 cells[i][1] = 8 /\ cells[i][2] = q.width - 8]

\* obs after the walker stopped on (x, y) to place a bit there; kind is
\* "placed" for draw_bit and "rem" for draw_remaining
Stopped(o, q, v, x, y, kind, written) ==
  LET cell == y * 256 + x
      p == [o EXCEPT !.dup = @ \/ (o.track /\ cell \in o.visited),
                     !.visited = IF o.track THEN @ \cup {cell} ELSE @,
                     !.placed = IF kind = "placed" THEN @ + 1 ELSE @,
                     !.rem = IF kind = "rem" THEN @ + 1 ELSE @]
  IN  IF written THEN Written(p, q, v, "data", <<<<x, y>>>>) ELSE p

RECURSIVE walk_byte(_, _, _, _, _, _)
\* draw_byte(b) on the coordinates: for x in (0..8).rev(), from bit k down
walk_byte(v, q, d, o, b, k) ==
  IF d.panic \/ k < 0 THEN [d |-> d, o |-> o]
  ELSE LET e == skip_reserved(v, walk(v, d))
       IN  walk_byte(v, q, e,
                     IF e.panic THEN o
                     ELSE Stopped(o, q, v, e.x, e.y, "placed", Bit(b, k) = 0),
                     b, k - 1)

InitWalk ==
  /\ pc = "w_finders"
  /\ version \in Versions
  /\ url_null = TRUE /\ url = <<>>
  /\ data = <<>> /\ data_size = 0 /\ data_len = 0
  /\ \E s \in (IF version <= MaxVisitVersion THEN WalkSeeds ELSE {0}) : tmp = <<s>>
  /\ tmp_size = 0
  /\ ret = 0
  /\ em = NoEm /\ it = NoIt
  /\ qr = qr_init(version)
  /\ obs = [NoObs EXCEPT !.track = version <= MaxVisitVersion]

WalkKeep == UNCHANGED <<url_null, url, data, data_size, data_len, tmp, tmp_size, version, it>>

WalkPattern(p, after, cells) ==
  /\ pc = p
  /\ pc' = after
  /\ obs' = Written(obs, qr, version, "pattern", cells)
  /\ UNCHANGED <<em, qr, ret>>
  /\ WalkKeep

WalkFinders == WalkPattern("w_finders", "w_alignments", draw_finders(qr.width))

WalkAlignments == WalkPattern("w_alignments", "w_timing", draw_alignments(version))

WalkTimingPatterns == WalkPattern("w_timing", "w_version", draw_timing_patterns(qr.width))

WalkVersionInfo == WalkPattern("w_version", "w_data", draw_version_info(version))

\* one turn of "for byte in data" of draw_data; the loop ends with the stream
WalkDrawByte ==
  /\ pc = "w_data"
  /\ em.current < stream_len(version)
  /\ LET b == WalkByte(tmp[1], em.current)
         r == walk_byte(version, qr, Drawing(<<>>, qr), obs, b, 7)
     IN  /\ qr' = [qr EXCEPT !.x = r.d.x, !.y = r.d.y]
         /\ obs' = [r.o EXCEPT !.wrap = @ \/ r.d.wrap]
         /\ em' = [em EXCEPT !.current = @ + 1]
         /\ pc' = IF r.d.panic THEN "panic"
                  ELSE IF em.current + 1 = stream_len(version) THEN "w_rem_enter"
                  ELSE "w_data"
  /\ UNCHANGED ret
  /\ WalkKeep

\* draw_remaining: the next() before the loop
WalkRemainingEnter ==
  /\ pc = "w_rem_enter"
  /\ LET e == walk(version, Drawing(<<>>, qr))
     IN  /\ qr' = [qr EXCEPT !.x = e.x, !.y = e.y]
         /\ obs' = [obs EXCEPT !.wrap = @ \/ e.wrap]
         /\ pc' = IF e.panic THEN "panic" ELSE "w_rem_loop"
  /\ UNCHANGED <<em, ret>>
  /\ WalkKeep

\* draw_remaining: one turn of the while loop
WalkRemainingStep ==
  /\ pc = "w_rem_loop"
  /\ ~(qr.x = 0 /\ qr.y = qr.width - 1)
  /\ LET o == IF ~is_reserved(version, qr.x, qr.y)
                THEN Stopped(obs, qr, version, qr.x, qr.y, "rem", TRUE)
                ELSE obs
         e == walk(version, Drawing(<<>>, qr))
     IN  /\ qr' = [qr EXCEPT !.x = e.x, !.y = e.y]
         /\ obs' = [o EXCEPT !.wrap = @ \/ e.wrap]
         /\ pc' = IF e.panic THEN "panic" ELSE "w_rem_loop"
  /\ UNCHANGED <<em, ret>>
  /\ WalkKeep

\* draw_remaining: the loop ends on (0, width - 1)
WalkRemainingExit ==
  /\ pc = "w_rem_loop"
  /\ qr.x = 0 /\ qr.y = qr.width - 1
  /\ pc' = "w_maskinfo"
  /\ UNCHANGED <<em, qr, ret, obs>>
  /\ WalkKeep

WalkMaskinfo == WalkPattern("w_maskinfo", "w_mask", draw_maskinfo(qr.width))

\* apply_mask, and draw_all returns the width
WalkApplyMask ==
  /\ pc = "w_mask"
  /\ pc' = "w_done"
  /\ obs' = Written(obs, qr, version, "data", apply_mask(version))
  /\ ret' = qr.width
  /\ UNCHANGED <<em, qr>>
  /\ WalkKeep

NextWalk ==
  \/ WalkFinders
  \/ WalkAlignments
  \/ WalkTimingPatterns
  \/ WalkVersionInfo
  \/ WalkDrawByte
  \/ WalkRemainingEnter
  \/ WalkRemainingStep
  \/ WalkRemainingExit
  \/ WalkMaskinfo
  \/ WalkApplyMask

SpecWalk == InitWalk /\ [][NextWalk]_vars

\* the remainder bits of a version: the modules left once the codewords are placed
RemainderBits(v) ==
  IF v = 1 THEN 0
  ELSE IF v <= 6 THEN 7
  ELSE IF v <= 13 THEN 0
  ELSE IF v <= 20 THEN 3
  ELSE IF v <= 27 THEN 4
  ELSE IF v <= 34 THEN 3
  ELSE 0

\* the ids of the modules of version v that no function pattern reserves
NonReserved(v) ==
  {y * 256 + x : <<x, y>> \in {c \in (0..(width(v) - 1)) \X (0..(width(v) - 1)) :
                                ~is_reserved(v, c[1], c[2])}}

\* C7: the walker stops on 8 * (stream length) modules for the codewords and on
\* remainder_bits(V) more in draw_remaining, never twice on the same module and
\* never on a reserved one; the last codeword bit is placed before the walker
\* is on the terminal cell (0, W - 1), and when draw_remaining has ended every
\* non-reserved module has been stopped on
C7_WalkerCoversGrid ==
  /\ pc # "panic"
  /\ ~obs.dup
  /\ pc = "w_data" => obs.placed = 8 * em.current /\ obs.rem = 0
  /\ pc = "w_rem_enter" =>
       /\ obs.placed = 8 * stream_len(version)
       /\ ~(qr.x = 0 /\ qr.y = qr.width - 1)
  /\ pc \in {"w_maskinfo", "w_mask", "w_done"} =>
       /\ obs.placed = 8 * stream_len(version)
       /\ obs.rem = RemainderBits(version)
       /\ qr.x = 0 /\ qr.y = qr.width - 1
       /\ obs.track => obs.visited = NonReserved(version)

C7_Witness ==
  /\ pc = "w_done" /\ version = 7 /\ obs.track
  /\ obs.placed = 8 * 196 /\ obs.rem = 0
  /\ Cardinality(obs.visited) = 1568

\* C8: every set and xor of draw_all is handed x < W and y < W, so the byte
\* offset is below W * ceil(W / 8); no u8 computation of a coordinate wraps,
\* in the walker or in the positions the patterns are computed from
C8_WritesInsideGrid ==
  /\ pc # "panic"
  /\ ~obs.oob
  /\ ~obs.wrap
  /\ obs.maxoff < qr.width * ((qr.width + 7) \div 8)
  /\ qr.width + 7 <= 255 /\ qr.width - 11 >= 0
  /\ qr.x \in 0..255 /\ qr.y \in 0..255
  /\ \A i \in 1..Len(alignment_pattern(version)) :
       alignment_pattern(version)[i] - 2 >= 0 /\ alignment_pattern(version)[i] + 2 <= 255

C8_Witness ==
  pc = "w_done" /\ version = 40 /\ ret = 177 /\ obs.nwrite > 0 /\ ~obs.oob

\* C9 as stated: for version 40 no set or xor addresses byte 3984 or beyond
C9_Fits3984 == version = 40 => obs.maxoff < 3984

\* C9: for version 40 the bitmap takes 177 * 23 = 4071 bytes: every write is
\* below offset 4071, the last row (offsets from 176 * 23) is written by
\* draw_finders already, and byte 4070 is written when draw_all returns
C9_Needs4071 ==
  version = 40 =>
    /\ obs.maxoff < 4071
    /\ pc # "w_finders" => obs.maxoff >= 176 * 23
    /\ pc = "w_done" => obs.maxoff = 4070

C9_Witness ==
  pc = "w_done" /\ version = 40 /\ qr.stride = 23 /\ obs.maxoff = 4070

-----------------------------------------------------------------------------
(* SpecRS: compute_error_code on a message of max_data bytes.  obs.chunks   *)
(* keeps the bytes of the message as they were before the call.             *)

RSVersions == {1, 2, 3, 6, 10}

RSSeeds == {0, 1, 64, 236}

RSSteps == {0, 17, 37}

InitRS ==
  /\ pc = "rs"
  /\ version \in RSVersions
  /\ url_null = TRUE /\ url = <<>>
  /\ data = <<>> /\ data_size = 0 /\ data_len = 0
  /\ tmp_size = stream_len(version)
  /\ \E seed \in RSSeeds : \E step \in RSSteps :
       /\ tmp = [i \in 1..tmp_size |->
                   IF i <= max_data(version) THEN Pattern(max_data(version), seed, step)[i]
                   ELSE 0]
       /\ obs = [NoObs EXCEPT !.chunks = Pattern(max_data(version), seed, step)]
  /\ ret = 0
  /\ em = [NoEm EXCEPT !.offset = 8 * max_data(version)]
  /\ it = NoIt /\ qr = NoQr

RSComputeErrorCode ==
  /\ pc = "rs"
  /\ LET r == compute_error_code(tmp, version)
     IN  /\ tmp' = r.buf
         /\ pc' = IF r.panic THEN "panic" ELSE "rs_done"
  /\ UNCHANGED <<url_null, url, data, data_size, data_len, tmp_size, version, em, it, qr,
                 ret, obs>>

NextRS == RSComputeErrorCode

SpecRS == InitRS /\ [][NextRS]_vars

\* multiplication in GF(256) modulo x^8 + x^4 + x^3 + x^2 + 1, by shifts
GFDouble(a) == IF 2 * a >= 256 THEN Xor8(2 * a - 256, 29) ELSE 2 * a

RECURSIVE GFMul(_, _)
GFMul(a, b) ==
  IF b = 0 THEN 0
  ELSE Xor8(IF b % 2 = 1 THEN a ELSE 0, GFMul(GFDouble(a), b \div 2))

\* the trailing coefficients of the monic generator of version v
Generator(v) == Eager([j \in 1..ec_size(v) |-> At(EXP_TABLE, poly(v)[j])])

\* block b of the message followed by its ECC, highest coefficient first
Codeword(buf, v, b) ==
  LET size == IF b < g1_blocks(v) THEN g1_blk_size(v) ELSE g1_blk_size(v) + 1
  IN  Eager([k \in 1..(size + ec_size(v)) |->
               IF k <= size THEN At(buf, DataByte(v, b, k - 1))
               ELSE At(buf, EccByte(v, b, k - size - 1))])

\* one step of the long division of c by the generator: cancel coefficient i
RemStep(c, i, g) ==
  Eager([k \in 1..Len(c) |->
           IF i + 1 < k /\ k <= i + 1 + Len(g)
             THEN Xor8(c[k], GFMul(c[i + 1], g[k - i - 1]))
           ELSE IF k = i + 1 THEN 0
           ELSE c[k]])

RECURSIVE PolyRem(_, _, _, _)
\* the steps lo .. hi - 1 of the long division, in order (evaluated by halves)
PolyRem(c, lo, hi, g) ==
  IF lo >= hi \/ Len(c) = 0 THEN c
  ELSE IF lo + 1 = hi THEN RemStep(c, lo, g)
  ELSE LET mid == (lo + hi) \div 2
       IN  PolyRem(PolyRem(c, lo, mid, g), mid, hi, g)

\* C10: after compute_error_code, for every block b (group 1 first) the
\* polynomial of the block's data followed by the ec_size bytes stored at
\* max_data + b * ec_size leaves remainder zero modulo the monic generator
\* with trailing coefficients EXP[poly[j]], and the bytes [0, max_data) are
\* those of the message before the call
C10_EccIsRemainder ==
  /\ pc # "panic"
  /\ pc = "rs_done" =>
       /\ Len(tmp) = tmp_size
       /\ \A i \in 1..max_data(version) : tmp[i] = obs.chunks[i]
       /\ \A b \in 0..(g1_blocks(version) + g2_blocks(version) - 1) :
            LET c == Codeword(tmp, version, b)
                r == PolyRem(c, 0, Len(c) - ec_size(version), Generator(version))
            IN  \A k \in 1..Len(c) : r[k] = 0

C10_Witness ==
  /\ pc = "rs_done" /\ version = 10 /\ g2_blocks(version) = 2
  /\ obs.chunks[1] = 236
  /\ \E k \in (max_data(version) + 1)..Len(tmp) : tmp[k] # 0

\* C11: the function-pattern routines write reserved modules only, and
\* draw_data, draw_remaining and apply_mask write none of them, so a reserved
\* module keeps what its routine gave it; no routine writes the dark module
\* (8, W - 8), which is reserved
C11_PatternsUntouched ==
  /\ ~obs.patt_out
  /\ ~obs.data_in
  /\ ~obs.dark_hit
  /\ is_reserved(version, 8, qr.width - 8)

C11_Witness ==
  /\ pc = "w_done" /\ version = 7 /\ obs.nwrite > 0 /\ obs.placed = 8 * 196
  /\ ~obs.patt_out /\ ~obs.data_in

-----------------------------------------------------------------------------
(* SpecNext: every call of next() that draw_data and draw_remaining make,   *)
(* one call an action.  obs.steps counts the calls, obs.placed the modules  *)
(* draw_bit stopped on, obs.rem those draw_remaining set.                   *)

InitNext ==
  /\ pc = "n_bit"
  /\ version \in Versions
  /\ url_null = TRUE /\ url = <<>>
  /\ data = <<>> /\ data_size = 0 /\ data_len = 0
  /\ tmp = <<>> /\ tmp_size = 0
  /\ ret = 0
  /\ em = NoEm /\ it = NoIt
  /\ qr = qr_init(version)
  /\ obs = NoObs

NextKeep ==
  UNCHANGED <<url_null, url, data, data_size, data_len, tmp, tmp_size, version, it, em, ret>>

\* a call of next() in draw_bit, and the test of "while self.is_reserved" after it
NextInDrawBit ==
  /\ LET n == next(qr.width, qr.x, qr.y)
         stop == ~n.wrap /\ ~is_reserved(version, n.x, n.y)
     IN  /\ qr' = [qr EXCEPT !.x = n.x, !.y = n.y]
         /\ obs' = [obs EXCEPT !.steps = @ + 1, !.wrap = @ \/ n.wrap,
                               !.placed = IF stop THEN @ + 1 ELSE @]
         /\ pc' = IF n.wrap THEN "panic"
                  ELSE IF ~stop THEN "n_skip"
                  ELSE IF obs.placed + 1 = 8 * stream_len(version) THEN "n_rem_enter"
                  ELSE "n_bit"
  /\ NextKeep

\* draw_bit: self.next()
NextDrawBit ==
  /\ pc = "n_bit"
  /\ NextInDrawBit

\* draw_bit: while self.is_reserved(self.x, self.y) { self.next() }
NextSkipReserved ==
  /\ pc = "n_skip"
  /\ NextInDrawBit

\* draw_remaining: the next() before the loop
NextRemainingEnter ==
  /\ pc = "n_rem_enter"
  /\ LET n == next(qr.width, qr.x, qr.y)
     IN  /\ qr' = [qr EXCEPT !.x = n.x, !.y = n.y]
         /\ obs' = [obs EXCEPT !.steps = @ + 1, !.wrap = @ \/ n.wrap]
         /\ pc' = IF n.wrap THEN "panic" ELSE "n_rem"
  /\ NextKeep

\* draw_remaining: one turn of the while loop
NextRemainingStep ==
  /\ pc = "n_rem"
  /\ ~(qr.x = 0 /\ qr.y = qr.width - 1)
  /\ LET n == next(qr.width, qr.x, qr.y)
     IN  /\ qr' = [qr EXCEPT !.x = n.x, !.y = n.y]
         /\ obs' = [obs EXCEPT !.steps = @ + 1, !.wrap = @ \/ n.wrap,
                               !.rem = IF ~is_reserved(version, qr.x, qr.y) THEN @ + 1 ELSE @]
         /\ pc' = IF n.wrap THEN "panic" ELSE "n_rem"
  /\ NextKeep

\* draw_remaining: the loop ends on (0, width - 1)
NextRemainingExit ==
  /\ pc = "n_rem"
  /\ qr.x = 0 /\ qr.y = qr.width - 1
  /\ pc' = "n_done"
  /\ UNCHANGED <<qr, obs>>
  /\ NextKeep

NextNext ==
  \/ NextDrawBit
  \/ NextSkipReserved
  \/ NextRemainingEnter
  \/ NextRemainingStep
  \/ NextRemainingExit

SpecNext == InitNext /\ [][NextNext]_vars

\* the place of module (x, y) in the march: strips of two columns from the
\* right edge, column 6 left out, the first strip upwards and then in turn,
\* the right module of a row before the left one
Order(w, x, y) ==
  LET xa == IF x <= 6 THEN x + 1 ELSE x
      strip == (w - 1 - xa) \div 2
      rows == IF strip % 2 = 0 THEN w - 1 - y ELSE y
  IN  strip * 2 * w + 2 * rows + (IF (w - xa) % 2 = 1 THEN 0 ELSE 1)

\* C12: from (W-2, W) each call of next() moves the walker to the module one
\* place further in the march, so no module is visited twice; it never is in
\* column 6, it is inside the grid after the first call, the calls end on the
\* terminal module (0, W-1) after W * (W-1) of them, and next() is not called
\* there
C12_WalkerTerminates ==
  /\ pc # "panic" /\ ~obs.wrap
  /\ obs.steps = 0 => qr.x = qr.width - 2 /\ qr.y = qr.width
  /\ obs.steps >= 1 =>
       /\ InGrid(qr.width, qr.x, qr.y)
       /\ qr.x # 6
       /\ Order(qr.width, qr.x, qr.y) = obs.steps - 1
  /\ obs.steps <= qr.width * (qr.width - 1)
  /\ (qr.x = 0 /\ qr.y = qr.width - 1) => pc \in {"n_rem", "n_done"}
  /\ pc = "n_done" =>
       /\ qr.x = 0 /\ qr.y = qr.width - 1
       /\ obs.steps = qr.width * (qr.width - 1)

C12_Witness ==
  /\ pc = "n_done" /\ version = 7 /\ qr.x = 0 /\ qr.y = 44
  /\ obs.steps = 45 * 44 /\ obs.placed = 8 * 196

-----------------------------------------------------------------------------
(* The Numeric segment: its character count and the chunks of its iterator, *)
(* under SpecNum.                                                           *)

\* the Numeric segment SpecNum iterates
NumSegment == Segment("Numeric", "data", data_len)

\* the digits of a short last group of s bits, as the statement has them
DigitsByHalves(s) == IF s = 0 THEN 0 ELSE IF s = 1 THEN 1 ELSE (s + 1) \div 2

\* the same, as (s + 1) div 3
DigitsByThirds(s) == IF s = 0 THEN 0 ELSE IF s = 1 THEN 1 ELSE (s + 1) \div 3

\* C13 as stated: the character count of a Numeric segment over n bytes is
\* 4 * (bits div 13) + d(bits mod 13) with d(s) = (s + 1) div 2 for s >= 2
C13_CountByHalves ==
  character_count(NumSegment)
    = 4 * ((8 * data_len) \div 13) + DigitsByHalves((8 * data_len) % 13)

\* C13: the character count of a Numeric segment over n bytes is
\* 4 * (bits div 13) + d(bits mod 13) with d(0) = 0, d(1) = 1 and
\* d(s) = (s + 1) div 3 for 2 <= s <= 12, and it is the value of the length
\* field, whose width is 10, 12 or 14 bits by version
C13_CountByThirds ==
  /\ character_count(NumSegment)
       = 4 * ((8 * data_len) \div 13) + DigitsByThirds((8 * data_len) % 13)
  /\ \A v \in Versions :
       get_length_field(NumSegment, v)
         = <<4 * ((8 * data_len) \div 13) + DigitsByThirds((8 * data_len) % 13),
             IF v <= 9 THEN 10 ELSE IF v <= 26 THEN 12 ELSE 14>>

C13_Witness ==
  /\ pc = "num_done" /\ data_len = 4
  /\ character_count(NumSegment) = 10
  /\ get_length_field(NumSegment, 1) = <<10, 10>>

\* C14: every chunk the Numeric iterator emits has 10, 7 or 4 bits and a
\* value of at most 999, 99 or 9, and only the last chunk of the segment has
\* fewer than 10 bits
C14_ChunksValid ==
  /\ \A i \in 1..Len(obs.chunks) :
       LET value == obs.chunks[i][1]
           bits == obs.chunks[i][2]
       IN  /\ bits \in {10, 7, 4}
           /\ value <= (IF bits = 10 THEN 999 ELSE IF bits = 7 THEN 99 ELSE 9)
  /\ \A i \in 1..(Len(obs.chunks) - 1) : obs.chunks[i][2] = 10

-----------------------------------------------------------------------------
(* The first step of the walker, under SpecNext.                            *)

\* C15 as stated: the walker starts at (W - 2, W), its first step moves to
\* (W - 2, W - 1), and the first data bit is placed there
C15_FirstBitInStartColumn ==
  /\ obs.steps = 0 => qr.x = qr.width - 2 /\ qr.y = qr.width
  /\ obs.steps = 1 => /\ qr.x = qr.width - 2 /\ qr.y = qr.width - 1
                      /\ obs.placed = 1

\* C15: the walker starts at (W - 2, W), one column left of the last and one
\* row below the grid; its first step moves up and right to the corner
\* (W - 1, W - 1), which is not reserved, so the first data bit is placed
\* there, and the second at (W - 2, W - 1)
C15_FirstBitInCorner ==
  /\ obs.steps = 0 => /\ qr.x = qr.width - 2 /\ qr.y = qr.width
                      /\ obs.placed = 0
  /\ obs.steps = 1 => /\ qr.x = qr.width - 1 /\ qr.y = qr.width - 1
                      /\ ~is_reserved(version, qr.x, qr.y)
                      /\ obs.placed = 1 /\ pc = "n_bit"
  /\ obs.steps = 2 => /\ qr.x = qr.width - 2 /\ qr.y = qr.width - 1
                      /\ obs.placed = 2

C15_Witness ==
  /\ version = 40 /\ obs.steps = 1 /\ obs.placed = 1
  /\ qr.x = 176 /\ qr.y = 176

-----------------------------------------------------------------------------
(* SpecPush: EncodedMsg::push alone.  After init has zero-filled the buffer *)
(* up to MaxPushes chunks (number, len_bits) are pushed, of every length    *)
(* 1..16 and at every cursor they lead to; obs.chunks keeps the chunks and  *)
(* obs.below tells that a push changed a bit below the cursor it started at.*)

MaxPushes == 2

\* the buffer holds exactly MaxPushes chunks of 16 bits
PushBufLen == 2 * MaxPushes

\* numbers of n bits: none set, all set, a mix
PushValues(n) == {0, Pow2(n) - 1, 42405 % Pow2(n)}

\* bit i of the buffer, counted from the most significant bit of byte 0
BufBit(buf, i) == Bit(At(buf, i \div 8), 7 - (i % 8))

\* the n bits of number, most significant first
ChunkBits(c) == [j \in 1..c[2] |-> Bit(c[1], c[2] - j)]

\* the first n bits of the buffer
BufBits(buf, n) == [j \in 1..n |-> BufBit(buf, j - 1)]

InitPush ==
  /\ pc = "push"
  /\ url_null = TRUE /\ url = <<>>
  /\ data = <<>> /\ data_size = 0 /\ data_len = 0
  /\ tmp_size = PushBufLen
  /\ tmp = em_init([i \in 1..PushBufLen |-> 255])
  /\ version = 0 /\ ret = 0
  /\ em = NoEm /\ it = NoIt /\ qr = NoQr /\ obs = NoObs

PushKeep ==
  UNCHANGED <<url_null, url, data, data_size, data_len, tmp_size, version, it, qr, ret>>

\* self.push((number, len_bits))
Push ==
  /\ pc = "push"
  /\ Len(obs.chunks) < MaxPushes
  /\ \E n \in 1..16 : \E number \in PushValues(n) :
       LET r == push(tmp, em.offset, <<number, n>>)
       IN  /\ tmp' = r.buf
           /\ em' = [em EXCEPT !.offset = r.offset]
           /\ pc' = IF r.panic THEN "panic" ELSE pc
           /\ obs' = [obs EXCEPT
                        !.chunks = Append(@, <<number, n>>),
                        !.below = @ \/ \E i \in 0..(em.offset - 1) :
                                         BufBit(r.buf, i) # BufBit(tmp, i)]
  /\ PushKeep

NextPush == Push

SpecPush == InitPush /\ [][NextPush]_vars

\* C16: after any sequence of pushes (v_i, n_i) with 1 <= n_i <= 16 and
\* v_i < 2^n_i into a zero-filled buffer that can hold them, the cursor is the
\* sum of the n_i, the buffer bits [0, cursor) read MSB-first are the n_i-bit
\* values in order, the bits from the cursor on are still zero, and no push
\* changed a bit below the cursor it started at or left the buffer
C16_PushConcatenates ==
  /\ pc # "panic"
  /\ em.offset = SumTo([i \in 1..Len(obs.chunks) |-> obs.chunks[i][2]], Len(obs.chunks))
  /\ BufBits(tmp, em.offset) = Concat([i \in 1..Len(obs.chunks) |-> ChunkBits(obs.chunks[i])],
                                      Len(obs.chunks))
  /\ \A i \in em.offset..(8 * Len(tmp) - 1) : BufBit(tmp, i) = 0
  /\ ~obs.below

\* a 16-bit chunk pushed at bit 7 of byte 0: the three-byte arm of push
C16_Witness ==
  /\ pc = "push"
  /\ obs.chunks = <<<<42405 % 128, 7>>, <<42405, 16>>>>
  /\ em.offset = 23
  /\ tmp = <<75, 75, 74, 0>>

-----------------------------------------------------------------------------
(* SpecSeg: EncodedMsg::add_segment for the segments of qr_encode_txt and   *)
(* qr_encode_url, over payloads of 0..MaxSegLen bytes (every residue of the *)
(* bit count mod 13) and with every version, each of which these segments   *)
(* fit.  obs.from is the cursor add_segment started at, obs.chunks the      *)
(* chunks of the segment in hand, obs.segs what each finished segment took. *)

MaxSegLen == 13

SegUrlLens == {0, 3}

\* a buffer that holds both segments
SegBufLen == 2 * MaxSegLen + 8

\* the characters a chunk carries: a byte, or 3, 2 or 1 digits
ChunkChars(c) == IF c[2] = 10 THEN 3 ELSE IF c[2] = 7 THEN 2 ELSE 1

\* whether segment s alone leaves room in version v
Fits(s, v) == total_size_bits(s, v) <= 8 * max_data(v)

InitSeg ==
  /\ pc = "seg"
  /\ url_null \in BOOLEAN
  /\ url \in IF url_null THEN {<<>>} ELSE {UrlBytes(n) : n \in SegUrlLens}
  /\ data_len \in 0..MaxSegLen
  /\ data_size = data_len
  /\ data = Pattern(data_len, 159, 37)
  /\ tmp_size = SegBufLen
  /\ tmp = em_init(Pattern(SegBufLen, 255, 0))
  /\ version \in Versions
  /\ ret = 0
  /\ em = [offset |-> 0, current |-> 0]
  /\ it = [NoIt EXCEPT !.seg = 1, !.step = "header"]
  /\ qr = NoQr /\ obs = NoObs

SegKeep == UNCHANGED <<inputs, data, version, qr, ret>>

\* add_segment: self.push(segment.get_header())
SegHeader ==
  /\ pc = "seg" /\ it.step = "header"
  /\ LET r == push(tmp, em.offset, get_header(segments[it.seg]))
     IN  /\ tmp' = r.buf
         /\ em' = [em EXCEPT !.offset = r.offset]
         /\ pc' = IF r.panic THEN "panic" ELSE pc
  /\ it' = [it EXCEPT !.step = "length"]
  /\ obs' = [obs EXCEPT !.from = em.offset, !.chunks = <<>>]
  /\ SegKeep

\* add_segment: self.push(segment.get_length_field(self.version)); segment.iter()
SegLength ==
  /\ pc = "seg" /\ it.step = "length"
  /\ LET r == push(tmp, em.offset, get_length_field(segments[it.seg], version))
     IN  /\ tmp' = r.buf
         /\ em' = [em EXCEPT !.offset = r.offset]
         /\ pc' = IF r.panic THEN "panic" ELSE pc
  /\ it' = [it EXCEPT !.step = "chunks", !.offset = 0, !.carry = 0, !.carry_len = 0]
  /\ obs' = obs
  /\ SegKeep

\* add_segment: one turn of "for bits in segment.iter() { self.push(bits) }";
\* on None add_segment returns, and encode goes to the next segment
SegChunk ==
  /\ pc = "seg" /\ it.step = "chunks"
  /\ LET s == segments[it.seg]
         n == seg_next(s, SegBytes(s), it)
         r == push(tmp, em.offset, n.item)
     IN  IF n.item # <<>>
           THEN /\ tmp' = r.buf
                /\ em' = [em EXCEPT !.offset = r.offset]
                /\ it' = n.it
                /\ obs' = [obs EXCEPT !.chunks = Append(@, n.item)]
                /\ pc' = IF r.panic THEN "panic" ELSE pc
           ELSE /\ UNCHANGED <<tmp, em>>
                /\ obs' = [obs EXCEPT
                             !.segs = Append(@,
                               [bits |-> em.offset - obs.from,
                                chars |-> SumTo([k \in 1..Len(obs.chunks) |->
                                                   ChunkChars(obs.chunks[k])],
                                                Len(obs.chunks))])]
                /\ IF it.seg < Len(segments)
                     THEN /\ it' = [n.it EXCEPT !.seg = it.seg + 1, !.step = "header"]
                          /\ pc' = pc
                     ELSE /\ it' = [n.it EXCEPT !.step = "none"]
                          /\ pc' = "seg_done"
  /\ SegKeep

NextSeg == SegHeader \/ SegLength \/ SegChunk

SpecSeg == InitSeg /\ [][NextSeg]_vars

\* C17: for a Binary or Numeric segment and every version, add_segment moves
\* the cursor by exactly total_size_bits(segment, version); the chunks of the
\* segment carry exactly character_count() characters (3, 2 or 1 digits per
\* 10-, 7- or 4-bit chunk of a Numeric segment, one byte per chunk of a
\* Binary one); and where the length field is pushed, for a segment of this
\* kind of every payload length that fits the version, character_count() is
\* below 2^length_bits_count(version)
C17_SizingMatchesEmission ==
  /\ pc # "panic"
  /\ \A k \in 1..Len(obs.segs) :
       /\ obs.segs[k].bits = total_size_bits(segments[k], version)
       /\ obs.segs[k].chars = character_count(segments[k])
  /\ (pc = "seg_done") =>
       /\ Len(obs.segs) = Len(segments)
       /\ em.offset = segments_bits(segments, version)
  /\ (pc = "seg" /\ it.step = "length") =>
       \A n \in 0..max_data(version) :
         LET s == Segment(segments[it.seg].kind, "data", n)
         IN  Fits(s, version) => character_count(s) < Pow2(length_bits_count(s, version))

C17_Witness ==
  /\ pc = "seg_done" /\ version = 27
  /\ ~url_null /\ Len(url) = 3 /\ data_len = 7
  /\ obs.segs = <<[bits |-> 44, chars |-> 3], [bits |-> 75, chars |-> 17]>>
  /\ em.offset = 119

=============================================================================
